---- MODULE Spec2Model ----
(***************************************************************************)
(* Model of the HERE-competition utilities.                                *)
(*                                                                         *)
(*   src/utils/preprocessing.py   _sliding_window_snapshots                *)
(*   src/utils/main_processor.py  process_lidar and the script entry       *)
(*                                                                         *)
(* Arrays and tensors are modelled the way numpy and torch store them: a   *)
(* buffer of the heap, an offset, a shape and one stride per axis (in      *)
(* elements).  Views share the buffer of their base; copies allocate.      *)
(***************************************************************************)
EXTENDS Integers, Sequences, FiniteSets, TLC

\* ------------------------------------------------------------------ bounds
MaxBatch  == 2   \* sizes of the sample axis (axes in front of it have size 1)
MaxChan   == 3   \* sizes of the channel axis
MaxDim    == 3   \* sizes of the two spatial axes
MaxKernel == 2   \* kernel extents
MaxStride == 2   \* largest stride
MaxCalls  == 2   \* calls the caller makes on the same input
MaxPoints == 2   \* points of a LAS file
MaxCoord  == 1   \* largest coordinate of a point

VARIABLES
    \* ---- caller of _sliding_window_snapshots
    heap,        \* buffers: heap[b] is the sequence of elements of buffer b
    arr,         \* the caller's input object
    kernel,      \* argument kernel: None or <<kH, kW>>
    stride,      \* argument stride: None or <<s>>
    results,     \* tensors returned so far, one per completed call
    \* ---- frame of the running call
    pc,          \* source line about to run, or "returned"/"raised"/"written"
    a,           \* local name arr after normalisation
    C,           \* local C
    windows,     \* local windows
    err,         \* class of the exception that left the call
    accessed,    \* number of attribute reads on the caller's object
    \* ---- main_processor.py
    lpc,         \* position of the script
    argv,        \* sys.argv
    las, coords, pcd, mesh, geoms,   \* locals of process_lidar / visualize
    calls,       \* pipeline steps entered, in order
    returned,    \* pipeline steps that returned, in order
    out          \* lines printed

patchVars == <<heap, arr, kernel, stride, results, pc, a, C, windows, err, accessed>>
lidarVars == <<lpc, argv, las, coords, pcd, mesh, geoms, calls, returned, out>>
vars == <<heap, arr, kernel, stride, results, pc, a, C, windows, err, accessed,
          lpc, argv, las, coords, pcd, mesh, geoms, calls, returned, out>>

\* ------------------------------------------------------- python's None
None == <<>>

\* ------------------------------------------------------------ ndarrays
RECURSIVE Prod(_)
Prod(s) == IF s = <<>> THEN 1 ELSE Head(s) * Prod(Tail(s))

RECURSIVE SumSeq(_)
SumSeq(s) == IF s = <<>> THEN 0 ELSE Head(s) + SumSeq(Tail(s))

Numel(shape) == Prod(shape)

\* strides of a C-contiguous array of the given shape
ContiguousStrides(shape) ==
    [d \in 1..Len(shape) |-> Prod(SubSeq(shape, d + 1, Len(shape)))]

\* index along axis d of the p-th element (p from 0) in row-major order
Coord(p, shape, d) == (p \div Prod(SubSeq(shape, d + 1, Len(shape)))) % shape[d]

\* buffer position (from 0) of the p-th element of a strided array
Address(x, p) ==
    x.off + SumSeq([d \in 1..Len(x.shape) |-> Coord(p, x.shape, d) * x.strides[d]])

\* the elements of x in row-major order
Flat(h, x) == [p \in 1..Numel(x.shape) |-> h[x.buf][Address(x, p - 1) + 1]]

Unbound == [kind |-> "unbound", buf |-> 0, off |-> 0, shape |-> <<>>, strides |-> <<>>]

NdArray(b, shape) ==
    [kind |-> "ndarray", buf |-> b, off |-> 0, shape |-> shape,
     strides |-> ContiguousStrides(shape)]

\* an object that is not an array: it has no attribute shape
Sentinel == [kind |-> "object", buf |-> 0, off |-> 0, shape |-> <<>>, strides |-> <<>>]

Arange(n) == [i \in 1..n |-> i - 1]

\* x[None, ...]: a view with a new leading axis of size 1
NewAxis(x) == [x EXCEPT !.shape = <<1>> \o x.shape, !.strides = <<0>> \o x.strides]

\* numpy.lib.stride_tricks.sliding_window_view(x, window_shape=ws, axis=(-2,-1))
AxisOutOfRange(x) == Len(x.shape) < 2

\* the bound checked on the height only
WindowTooLargeMut(x, ws) == x.shape[Len(x.shape) - 1] < ws[1]

WindowTooLarge(x, ws) ==
    LET r == Len(x.shape)
    IN  x.shape[r - 1] < ws[1] \/ x.shape[r] < ws[2]

SlidingWindowView(x, ws) ==
    LET r == Len(x.shape)
        trimmed == [d \in 1..r |->
                      IF d = r - 1 THEN x.shape[d] - (ws[1] - 1)
                      ELSE IF d = r THEN x.shape[d] - (ws[2] - 1)
                      ELSE x.shape[d]]
    IN  [x EXCEPT !.shape = trimmed \o ws,
                  !.strides = x.strides \o <<x.strides[r - 1], x.strides[r]>>]

\* number of indices selected by the slice ::s on an axis of length n (s # 0)
SliceLen(n, s) == IF s > 0 THEN (n + s - 1) \div s ELSE (n + (-s) - 1) \div (-s)

\* x[..., ::s, ...] on axis d: a view
SliceStep(x, d, s) ==
    [x EXCEPT !.off = IF s > 0 THEN x.off ELSE x.off + (x.shape[d] - 1) * x.strides[d],
              !.shape[d] = SliceLen(x.shape[d], s),
              !.strides[d] = x.strides[d] * s]

\* windows[:, :, ::stride, ::stride, :, :]
Subsample(x, s) == SliceStep(SliceStep(x, 3, s), 4, s)

\* the windows kept as a view of their base, without the copy
CopyOfMut(x, b) == x

\* ndarray.copy(): a C-contiguous array in a fresh buffer b
CopyOf(x, b) == NdArray(b, x.shape)

\* the axes left in the order of the windowed view
PermuteDimsMut == <<0, 1, 2, 3, 4, 5>>

\* Tensor.permute(dims), dims given from 0 as in the source
PermuteDims == <<0, 2, 3, 1, 4, 5>>

Permute(t, dims) ==
    [t EXCEPT !.shape = [d \in 1..Len(dims) |-> t.shape[dims[d] + 1]],
              !.strides = [d \in 1..Len(dims) |-> t.strides[dims[d] + 1]]]

\* torch's stride computation for a view of a new shape
RECURSIVE FillView(_, _, _, _, _, _)
FillView(nshape, vd, vn, tn, base, ns) ==
    IF vd >= 1 /\ (vn < tn \/ nshape[vd] = 1)
    THEN FillView(nshape, vd - 1, vn * nshape[vd], tn, base,
                  [ns EXCEPT ![vd] = vn * base])
    ELSE [vd |-> vd, vn |-> vn, ns |-> ns]

RECURSIVE ComputeStrideFrom(_, _, _, _, _, _, _, _)
ComputeStrideFrom(oshape, ostride, nshape, td, vd, tn0, base, ns) ==
    LET tn == tn0 * oshape[td]
        chunkEnd == td = 1 \/ (oshape[td - 1] # 1 /\ ostride[td - 1] # tn * base)
        f == FillView(nshape, vd, 1, tn, base, ns)
    IN  IF ~chunkEnd
        THEN ComputeStrideFrom(oshape, ostride, nshape, td - 1, vd, tn, base, ns)
        ELSE IF f.vn # tn THEN [ok |-> FALSE, strides |-> ns]
        ELSE IF td > 1
        THEN ComputeStrideFrom(oshape, ostride, nshape, td - 1, f.vd, 1,
                               ostride[td - 1], f.ns)
        ELSE [ok |-> f.vd = 0, strides |-> f.ns]

ComputeStride(oshape, ostride, nshape) ==
    ComputeStrideFrom(oshape, ostride, nshape, Len(oshape), Len(nshape), 1,
                      ostride[Len(oshape)], [d \in 1..Len(nshape) |-> 1])

\* Tensor.reshape(-1, c, kh, kw): the inferred shape, a view when the strides
\* allow one and a contiguous clone in buffer b otherwise
ReshapeFits(t, c, kh, kw) == Numel(t.shape) % (c * kh * kw) = 0

ReshapedShape(t, c, kh, kw) == <<Numel(t.shape) \div (c * kh * kw), c, kh, kw>>

ReshapeIsView(t, nshape) == ComputeStride(t.shape, t.strides, nshape).ok

Reshape(t, nshape, b) ==
    IF ReshapeIsView(t, nshape)
    THEN [t EXCEPT !.shape = nshape,
                   !.strides = ComputeStride(t.shape, t.strides, nshape).strides]
    ELSE NdArray(b, nshape)

\* Tensor.squeeze(): a view without the axes of size 1
RECURSIVE KeptAxes(_, _)
KeptAxes(shape, d) ==
    IF d > Len(shape) THEN <<>>
    ELSE IF shape[d] = 1 THEN KeptAxes(shape, d + 1)
    ELSE <<d>> \o KeptAxes(shape, d + 1)

Squeeze(t) ==
    LET keep == KeptAxes(t.shape, 1)
    IN  [t EXCEPT !.shape = [i \in 1..Len(keep) |-> t.shape[keep[i]]],
                  !.strides = [i \in 1..Len(keep) |-> t.strides[keep[i]]]]

\* ------------------------------------------- _sliding_window_snapshots
\* the guard with "and" in place of "or"
PreconditionViolatedMut(k, s) == k = None /\ s = None

\* line 52: the guard on the two required arguments
PreconditionViolated(k, s) == k = None \/ s = None

\* lines 57-64: the array the windows are taken from
NormalizedArr(x) ==
    IF Len(x.shape) = 3 THEN NewAxis(x)
    ELSE IF Len(x.shape) = 2 THEN NewAxis(NewAxis(x))
    ELSE x

\* the channel count read from axis 1 of a batched input
RecordedCMut(x) ==
    IF Len(x.shape) = 3 THEN NewAxis(x).shape[2]
    ELSE IF Len(x.shape) = 2 THEN 1
    ELSE IF Len(x.shape) = 4 THEN x.shape[2]
    ELSE 3

\* lines 57-64: the channel count recorded for the reshape
RecordedC(x) ==
    IF Len(x.shape) = 3 THEN NewAxis(x).shape[2]
    ELSE IF Len(x.shape) = 2 THEN 1
    ELSE 3

\* exception classes: numpy's AxisError derives from ValueError
IsValueError(e) == e \in {"ValueError", "AxisError"}

Raise(e) ==
    /\ pc' = "raised"
    /\ err' = e

\* lines 52-53
CheckArgs ==
    /\ pc = "l52"
    /\ IF PreconditionViolated(kernel, stride)
       THEN Raise("AssertionError")
       ELSE pc' = "l57" /\ err' = err
    /\ UNCHANGED <<heap, arr, kernel, stride, results, a, C, windows, accessed>>
    /\ UNCHANGED lidarVars

\* lines 57-64: len(arr.shape) is the first read of the caller's object
Normalize ==
    /\ pc = "l57"
    /\ accessed' = accessed + 1
    /\ IF arr.kind # "ndarray"
       THEN Raise("AttributeError") /\ UNCHANGED <<a, C>>
       ELSE /\ a' = NormalizedArr(arr)
            /\ C' = RecordedC(arr)
            /\ pc' = "l66"
            /\ err' = err
    /\ UNCHANGED <<heap, arr, kernel, stride, results, windows>>
    /\ UNCHANGED lidarVars

\* lines 66-67: H, W = kernel; windows = sliding_window_view(...)
SlidingWindow ==
    /\ pc = "l66"
    /\ IF kernel = None
       THEN Raise("TypeError") /\ UNCHANGED windows
       ELSE IF AxisOutOfRange(a)
       THEN Raise("AxisError") /\ UNCHANGED windows
       ELSE IF WindowTooLarge(a, kernel)
       THEN Raise("ValueError") /\ UNCHANGED windows
       ELSE /\ windows' = SlidingWindowView(a, kernel)
            /\ pc' = "l68"
            /\ err' = err
    /\ UNCHANGED <<heap, arr, kernel, stride, results, a, C, accessed>>
    /\ UNCHANGED lidarVars

\* the step of the slice ::s; a step of None is the default step 1
SliceStepOf(s) == IF s = None THEN 1 ELSE s[1]

\* line 68: windows = windows[:, :, ::stride, ::stride, :, :].copy()
SubsampleCopy ==
    /\ pc = "l68"
    /\ IF SliceStepOf(stride) = 0
       THEN Raise("ValueError") /\ UNCHANGED <<heap, windows>>
       ELSE LET v == Subsample(windows, SliceStepOf(stride))
            IN  /\ heap' = Append(heap, Flat(heap, v))
                /\ windows' = CopyOf(v, Len(heap) + 1)
                /\ pc' = "l69"
                /\ err' = err
    /\ UNCHANGED <<arr, kernel, stride, results, a, C, accessed>>
    /\ UNCHANGED lidarVars

\* line 69: torch.from_numpy(windows).permute(0,2,3,1,4,5).reshape(-1, C, H, W)
\* from_numpy shares the buffer of the array it is given
ToTensor ==
    /\ pc = "l69"
    /\ IF Len(windows.shape) # Len(PermuteDims)
       THEN Raise("RuntimeError") /\ UNCHANGED <<heap, windows>>
       ELSE LET p == Permute(windows, PermuteDims)
            IN  IF ~ReshapeFits(p, C, kernel[1], kernel[2])
                THEN Raise("RuntimeError") /\ UNCHANGED <<heap, windows>>
                ELSE LET ns == ReshapedShape(p, C, kernel[1], kernel[2])
                     IN  /\ windows' = Reshape(p, ns, Len(heap) + 1)
                         /\ heap' = IF ReshapeIsView(p, ns) THEN heap
                                    ELSE Append(heap, Flat(heap, p))
                         /\ pc' = "l70"
                         /\ err' = err
    /\ UNCHANGED <<arr, kernel, stride, results, a, C, accessed>>
    /\ UNCHANGED lidarVars

\* line 70: return windows.squeeze()
Return ==
    /\ pc = "l70"
    /\ results' = Append(results, Squeeze(windows))
    /\ pc' = "returned"
    /\ UNCHANGED <<heap, arr, kernel, stride, a, C, windows, err, accessed>>
    /\ UNCHANGED lidarVars

\* ---------------------------------------------------------- the caller
\* the caller calls again with the same arguments: a fresh frame
CallAgain ==
    /\ pc = "returned"
    /\ Len(results) < MaxCalls
    /\ pc' = "l52"
    /\ a' = Unbound
    /\ C' = 0
    /\ windows' = Unbound
    /\ UNCHANGED <<heap, arr, kernel, stride, results, err, accessed>>
    /\ UNCHANGED lidarVars

\* value the caller stores; no element of an input holds it
Poison == 0 - 1

\* the heap after x[...] = v: every element of x is overwritten
Addresses(x) == {Address(x, p - 1) : p \in 1..Numel(x.shape)}

Fill(h, x, v) ==
    LET stored == Addresses(x)
        old == h[x.buf]
    IN  [h EXCEPT ![x.buf] = [k \in 1..Len(old) |->
                                IF (k - 1) \in stored THEN v ELSE old[k]]]

\* after a call returned the caller overwrites its input array
CallerWritesInput ==
    /\ pc = "returned"
    /\ heap' = Fill(heap, arr, Poison)
    /\ pc' = "written"
    /\ UNCHANGED <<arr, kernel, stride, results, a, C, windows, err, accessed>>
    /\ UNCHANGED lidarVars

\* after a call returned the caller overwrites a tensor it was given
CallerWritesResult ==
    /\ pc = "returned"
    /\ \E r \in 1..Len(results) : heap' = Fill(heap, results[r], Poison)
    /\ pc' = "written"
    /\ UNCHANGED <<arr, kernel, stride, results, a, C, windows, err, accessed>>
    /\ UNCHANGED lidarVars

\* ------------------------------------------------------------- inputs
RECURSIVE ShapesOfRank(_)
ShapesOfRank(r) ==
    IF r = 0 THEN {<<>>}
    ELSE IF r = 1 THEN {<<w>> : w \in 1..MaxDim}
    ELSE IF r = 2 THEN {<<h, w>> : h \in 1..MaxDim, w \in 1..MaxDim}
    ELSE IF r = 3 THEN {<<c>> \o s : c \in 1..MaxChan, s \in ShapesOfRank(2)}
    ELSE IF r = 4 THEN {<<n>> \o s : n \in 1..MaxBatch, s \in ShapesOfRank(3)}
    ELSE {<<1>> \o s : s \in ShapesOfRank(r - 1)}

MaxRank == 5

Shapes == UNION {ShapesOfRank(r) : r \in 0..MaxRank}

Kernels == {None} \cup {<<kh, kw>> : kh \in 1..MaxKernel, kw \in 1..MaxKernel}

Strides == {None} \cup {<<s>> : s \in (0 - 1)..MaxStride}

PatchInit ==
    /\ \E shape \in Shapes :
          \/ arr = NdArray(1, shape) /\ heap = <<Arange(Numel(shape))>>
          \/ shape = <<>> /\ arr = Sentinel /\ heap = <<>>
    /\ kernel \in Kernels
    /\ stride \in Strides
    /\ results = <<>>
    /\ pc = "l52"
    /\ a = Unbound
    /\ C = 0
    /\ windows = Unbound
    /\ err = "none"
    /\ accessed = 0

PatchIdle ==
    /\ heap = <<>> /\ arr = Unbound /\ kernel = None /\ stride = None
    /\ results = <<>> /\ pc = "idle" /\ a = Unbound /\ C = 0
    /\ windows = Unbound /\ err = "none" /\ accessed = 0

LidarIdle ==
    /\ lpc = "idle"
    /\ argv = <<>>
    /\ las = None /\ coords = None /\ pcd = None /\ mesh = None /\ geoms = <<>>
    /\ calls = <<>> /\ returned = <<>> /\ out = <<>>

Init == PatchInit /\ LidarIdle

Next ==
    \/ CheckArgs
    \/ Normalize
    \/ SlidingWindow
    \/ SubsampleCopy
    \/ ToTensor
    \/ Return

Spec == Init /\ [][Next]_vars

\* the call together with what its caller does with the arrays afterwards
NextCaller ==
    \/ Next
    \/ CallAgain
    \/ CallerWritesInput
    \/ CallerWritesResult

SpecCaller == Init /\ [][NextCaller]_vars

\* ---------------------------------------------------- main_processor.py
\* the steps of process_lidar in the order of its body (lines 96-100)
Pipeline == <<"load", "offset", "colorize", "mesh", "visualize">>

\* the last two calls of process_lidar exchanged
NextLineMut(l) ==
    CASE l = "l96" -> "l97"
      [] l = "l97" -> "l98"
      [] l = "l98" -> "l100"
      [] l = "l100" -> "l99"
      [] l = "l99" -> "exit"

\* the line that runs after a line of process_lidar returned
NextLine(l) ==
    CASE l = "l96" -> "l97"
      [] l = "l97" -> "l98"
      [] l = "l98" -> "l99"
      [] l = "l99" -> "l100"
      [] l = "l100" -> "exit"

\* a step was entered, printed ls and returned
StepReturns(name, ls) ==
    /\ calls' = Append(calls, name)
    /\ returned' = Append(returned, name)
    /\ out' = out \o ls
    /\ lpc' = NextLine(lpc)

\* a step was entered, printed ls and an exception left it; nothing in
\* process_lidar or the script catches it
StepRaises(name, ls) ==
    /\ calls' = Append(calls, name)
    /\ returned' = returned
    /\ out' = out \o ls
    /\ lpc' = "raised"

RECURSIVE MinSeq(_)
MinSeq(s) == IF Len(s) = 1 THEN s[1]
             ELSE LET m == MinSeq(Tail(s)) IN IF s[1] < m THEN s[1] ELSE m

Column(pts, k) == [i \in 1..Len(pts) |-> pts[i][k]]

\* lines 103-107
Main ==
    /\ lpc = "l104"
    /\ IF Len(argv) > 1
       THEN lpc' = "l96" /\ out' = out
       ELSE lpc' = "exit" /\ out' = Append(out, "Usage")
    /\ UNCHANGED <<argv, las, coords, pcd, mesh, geoms, calls, returned>>
    /\ UNCHANGED patchVars

\* lines 7-15, called at line 96; laspy.open raises when the file is absent
LoadLidar ==
    /\ lpc = "l96"
    /\ IF argv[2].exists
       THEN /\ StepReturns("load", <<"Loading", "Points in file", "Point format">>)
            /\ las' = argv[2]
       ELSE /\ StepRaises("load", <<"Loading">>)
            /\ las' = las
    /\ UNCHANGED <<argv, coords, pcd, mesh, geoms>>
    /\ UNCHANGED patchVars

\* lines 18-31, called at line 97; np.min raises on a file without points
OffsetCoordinates ==
    /\ lpc = "l97"
    /\ IF las.points = <<>>
       THEN /\ StepRaises("offset", <<>>)
            /\ coords' = coords
       ELSE /\ StepReturns("offset", <<"Applied offsets">>)
            /\ coords' = [i \in 1..Len(las.points) |->
                            <<las.points[i][1] - MinSeq(Column(las.points, 1)),
                              las.points[i][2] - MinSeq(Column(las.points, 2)),
                              las.points[i][3] - MinSeq(Column(las.points, 3))>>]
    /\ UNCHANGED <<argv, las, pcd, mesh, geoms>>
    /\ UNCHANGED patchVars

\* lines 34-51, called at line 98; colors names the attribute they come from
CreatePointCloud ==
    /\ lpc = "l98"
    /\ pcd' = [points |-> coords, colors |-> las.color, normals |-> FALSE]
    /\ StepReturns("colorize",
                   IF las.color = "rgb" THEN <<"Using RGB colors...">>
                   ELSE IF las.color = "intensity" THEN <<"Using intensity mapping...">>
                   ELSE <<>>)
    /\ UNCHANGED <<argv, las, coords, mesh, geoms>>
    /\ UNCHANGED patchVars

\* lines 54-68, called at line 99; the reconstruction is the library's and may fail
CreateMesh ==
    /\ lpc = "l99"
    /\ \/ /\ StepReturns("mesh", <<"Estimating normals...", "Creating mesh...">>)
          /\ pcd' = [pcd EXCEPT !.normals = TRUE]
          /\ mesh' = [vertices |-> Len(pcd.points)]
       \/ /\ StepRaises("mesh", <<"Estimating normals...", "Creating mesh...">>)
          /\ pcd' = [pcd EXCEPT !.normals = TRUE]
          /\ mesh' = mesh
    /\ UNCHANGED <<argv, las, coords, geoms>>
    /\ UNCHANGED patchVars

\* lines 71-92, called at line 100; the window is the library's and may fail
Visualize ==
    /\ lpc = "l100"
    /\ \/ /\ StepReturns("visualize", <<"Launching visualizer...">>)
          /\ geoms' = <<"pcd">> \o (IF mesh # None THEN <<"mesh">> ELSE <<>>) \o <<"axes">>
       \/ /\ StepRaises("visualize", <<"Launching visualizer...">>)
          /\ geoms' = geoms
    /\ UNCHANGED <<argv, las, coords, pcd, mesh>>
    /\ UNCHANGED patchVars

Points == {<<x, y, z>> : x \in 0..MaxCoord, y \in 0..MaxCoord, z \in 0..MaxCoord}

PointSeqs == UNION {[1..n -> Points] : n \in 0..MaxPoints}

LasFiles ==
    {[exists |-> TRUE, points |-> ps, color |-> c] :
        ps \in PointSeqs, c \in {"rgb", "intensity", "none"}}
    \cup {[exists |-> FALSE, points |-> <<>>, color |-> "none"]}

LidarInit ==
    /\ lpc = "l104"
    /\ \/ argv = <<"main_processor.py">>
       \/ \E f \in LasFiles : argv = <<"main_processor.py", f>>
    /\ las = None /\ coords = None /\ pcd = None /\ mesh = None /\ geoms = <<>>
    /\ calls = <<>> /\ returned = <<>> /\ out = <<>>

InitLidar == PatchIdle /\ LidarInit

NextLidar ==
    \/ Main
    \/ LoadLidar
    \/ OffsetCoordinates
    \/ CreatePointCloud
    \/ CreateMesh
    \/ Visualize

SpecLidar == InitLidar /\ [][NextLidar]_vars

\* =====================================================================
\* Properties of _sliding_window_snapshots (specification Spec)
\* =====================================================================
\* the caller's input, read off its own shape
Rank == Len(arr.shape)
Supported == arr.kind = "ndarray" /\ Rank \in {2, 3, 4}
Given == kernel # None /\ stride # None
InN == IF Rank = 4 THEN arr.shape[1] ELSE 1
InC == IF Rank = 4 THEN arr.shape[2] ELSE IF Rank = 3 THEN arr.shape[1] ELSE 1
InH == arr.shape[Rank - 1]
InW == arr.shape[Rank]
KernelFits == kernel[1] <= InH /\ kernel[2] <= InW
CountPositions(extent, k, s) == (extent - k) \div s + 1
Hp == CountPositions(InH, kernel[1], stride[1])
Wp == CountPositions(InW, kernel[2], stride[1])
ExpectedPatches == InN * Hp * Wp
\* element [n, c, i, j] of the normalized input, indices from 0
InputAt(n, c, i, j) == heap[arr.buf][((n * InC + c) * InH + i) * InW + j + 1]
WithoutOnes(s) == SelectSeq(s, LAMBDA v : v # 1)
InContract == Supported /\ Given /\ stride[1] >= 1 /\ KernelFits
UnitWindows == Supported /\ kernel = <<1, 1>> /\ stride = <<1>>
Last(s) == s[Len(s)]

\* C1: for an input of rank 2, 3 or 4 normalized to (N,C,H,W), a kernel within
\* the spatial extent and a stride >= 1, the call does not fail and the tensor
\* it is about to squeeze holds N * (floor((H-kH)/s)+1) * (floor((W-kW)/s)+1)
\* patches.
C1_PatchCount ==
    InContract =>
        /\ pc # "raised"
        /\ pc = "l70" => windows.shape[1] = ExpectedPatches

\* C2: under the same conditions the patches have shape (C,kH,kW) and are
\* ordered by sample, vertical position, horizontal position: patch
\* n*Hp*Wp + i*Wp + j holds at [c, a, b] the input value at [n, c, i*s+a, j*s+b].
C2_PatchOrder ==
    InContract =>
        /\ pc # "raised"
        /\ pc = "l70" =>
             /\ windows.shape = <<ExpectedPatches, InC, kernel[1], kernel[2]>>
             /\ \A n \in 0..(InN - 1), i \in 0..(Hp - 1), j \in 0..(Wp - 1),
                   c \in 0..(InC - 1), r \in 0..(kernel[1] - 1), q \in 0..(kernel[2] - 1) :
                   Flat(heap, windows)[((((n * Hp + i) * Wp + j) * InC + c) * kernel[1] + r)
                                         * kernel[2] + q + 1]
                     = InputAt(n, c, i * stride[1] + r, j * stride[1] + q)

C4_PreconditionFirst ==
    (kernel = None \/ stride = None) =>
        /\ pc \in {"l52", "raised"}
        /\ pc = "raised" => err = "AssertionError"
        /\ accessed = 0
        /\ a = Unbound /\ windows = Unbound
        /\ results = <<>>

C4_Witness ==
    /\ pc = "raised" /\ err = "AssertionError" /\ accessed = 0
    /\ kernel # None /\ stride = None /\ arr = Sentinel

\* C5: for an input of rank 2, 3 or 4, a kernel larger than the spatial extent
\* along either axis makes the call raise a ValueError, whatever the stride,
\* and nothing is returned.
C5_KernelOutOfBounds ==
    (Supported /\ Given /\ ~KernelFits) =>
        /\ pc \in {"l52", "l57", "l66", "raised"}
        /\ pc = "raised" => IsValueError(err)
        /\ windows = Unbound
        /\ results = <<>>

C5_Witness ==
    /\ pc = "raised" /\ err = "ValueError"
    /\ Supported /\ Given /\ kernel[1] <= InH /\ kernel[2] > InW /\ stride[1] = 0

\* C6: for an array whose rank is not 2, 3 or 4, with kernel and stride given,
\* the call never returns and the error that leaves it is the ValueError the
\* documentation names for an unsupported dimensionality.
C6_UnsupportedRank ==
    (arr.kind = "ndarray" /\ Rank \notin {2, 3, 4} /\ Given) =>
        /\ pc # "returned"
        /\ results = <<>>
        /\ pc = "raised" => IsValueError(err)

\* C7: the returned tensor has the shape (P, C, kH, kW) without its axes of
\* size 1, P the total patch count and C the channel count of the normalized
\* input, and no returned axis has size 1.
C7_SqueezedShape ==
    (InContract /\ pc = "returned") =>
        /\ Last(results).shape =
              WithoutOnes(<<ExpectedPatches, InC, kernel[1], kernel[2]>>)
        /\ \A d \in 1..Len(Last(results).shape) : Last(results).shape[d] # 1

\* what one step may change: the caller's object and the tensors returned so
\* far stay the same objects; a step of a call changes no element of the input
\* or of a returned tensor; a store by the caller changes either the input or
\* one returned tensor, never two of them
C8_StepFrame ==
    LET inputChanged == arr.kind = "ndarray" /\ heap'[arr.buf] # heap[arr.buf]
        changed == {r \in 1..Len(results) :
                      /\ heap'[results[r].buf] # heap[results[r].buf]
                      /\ Flat(heap', results[r]) # Flat(heap, results[r])}
    IN  /\ arr' = arr
        /\ \A r \in 1..Len(results) : r <= Len(results') /\ results'[r] = results[r]
        /\ heap' # heap =>
              /\ pc # "returned" => (~inputChanged /\ changed = {})
              /\ inputChanged => changed = {}
              /\ Cardinality(changed) <= 1

\* C8: the steps of a call, failing or not, change neither the caller's array
\* nor a tensor returned earlier; a store into the input changes no returned
\* tensor, and a store into a returned tensor changes neither the input nor
\* another call's tensor.
C8_InputUntouchedResultsIndependent == [][C8_StepFrame]_vars

Holds(h, x, v) == \E p \in 1..Numel(x.shape) : Flat(h, x)[p] = v

C8_Witness ==
    /\ pc = "written" /\ Len(results) = 2
    /\ Numel(results[1].shape) > 1 /\ Len(results[1].shape) > 1
    /\ Holds(heap, results[1], Poison)
    /\ ~Holds(heap, results[2], Poison)
    /\ ~Holds(heap, arr, Poison)

IsPrefix(s, t) == Len(s) <= Len(t) /\ SubSeq(t, 1, Len(s)) = s

\* the steps entered so far are an initial part of the pipeline, each entered
\* after the one before it returned; only a step that raised is entered and
\* not returned
C10_Linear ==
    /\ IsPrefix(calls, Pipeline)
    /\ IsPrefix(returned, calls)
    /\ Len(calls) <= Len(returned) + 1
    /\ (Len(calls) = Len(returned) + 1) <=> (lpc = "raised")
    /\ (lpc = "exit" /\ Len(argv) > 1) => returned = Pipeline
    /\ Len(argv) <= 1 => (calls = <<>> /\ (lpc = "exit" => out = <<"Usage">>)
                                      /\ (lpc # "exit" => out = <<>>))

\* C10: the steps run in the order load, offset, colorize, mesh, visualize,
\* each at most once and only after the previous one returned; a step that
\* raises is the last one entered; a run that ends normally with a file
\* argument ran all five; without a file argument no step is entered and only
\* the usage line is printed.
C10_LinearPipeline == []C10_Linear /\ [][lpc = "raised" => calls' = calls]_vars

C10_Witness ==
    /\ lpc = "exit" /\ Len(argv) > 1
    /\ returned = Pipeline /\ geoms = <<"pcd", "mesh", "axes">>

====
